---- MODULE Spec2Model ----
(***************************************************************************)
(* Three client-side cooling-swarm simulations of the repository:          *)
(*   ring  - useSimulation(agentCount)  (zone-swarm-heal-main hook)        *)
(*   tick  - useSimulation(scenario)    (tick-counter presentation hook)   *)
(*   line  - script.js                  (line-topology swarm script)       *)
(* A behaviour runs one of them; `page` says which one is loaded.          *)
(*                                                                         *)
(* JavaScript numbers are modelled as fixed-point integers: a value v is   *)
(* held as v * Scale, divisions truncate towards minus infinity.  The      *)
(* IEEE value Infinity, which the ring hook's load arithmetic can          *)
(* produce (division by an empty neighbour list), is the value Infinity.   *)
(* Math.random() is a draw, in thousandths, from RandomValues.             *)
(***************************************************************************)
EXTENDS Integers, Sequences, FiniteSets, TLC

VARIABLES
    page,                \* "ring" | "tick" | "line": the program that is loaded
    \* ---- ring hook: useSimulation(agentCount)
    agentCount,          \* the hook's argument
    agents,              \* useState<Agent[]>
    isRunning,           \* useState(false)
    temperatureHistory,  \* useState([])
    time,                \* useState(0)
    stats,               \* calculateStats(agents) of the last render
    \* ---- tick-counter hook: useSimulation(scenario)
    scenario,            \* the hook's argument: "prototype" | "vision"
    step,                \* useState(0)
    isPlaying,           \* useState(false)
    faultInjected,       \* useState(false)
    data,                \* useState<SimulationData>
    \* ---- line script: script.js
    script,              \* "newWeb" | "HacktonWeb1": which copy of script.js
    lineAgents,          \* const agents
    state,               \* const state: running, tick, history, data
    loopId,              \* let loopId (0: null)
    timers,              \* the interval handles that are active
    \* ---- bookkeeping of the exploration (not program state)
    lastOp,              \* the operation that produced this state
    lastId,              \* the agent id it was called with (-1: none)
    cmds,                \* failure / repair commands issued since construction or reset
    injectCalls,         \* calls of handleInjectFault since construction or reset
    bias,                \* line script: how the Math.random() draws of each agent lean
    fails,               \* line script: spontaneous failures since construction or reset
    faultyTicks          \* tick-counter hook: timer ticks the present fault has lasted

ringVars == <<agentCount, agents, isRunning, temperatureHistory, time, stats>>
tickVars == <<scenario, step, isPlaying, faultInjected, data>>
lineVars == <<script, lineAgents, state, loopId, timers>>
auxVars == <<lastOp, lastId, cmds, injectCalls, bias, fails, faultyTicks>>
vars == <<page, ringVars, tickVars, lineVars, auxVars>>

\* ------------------------------------------------------------------ numbers

Scale == 10 * 10

Infinity == 1000000 * 1000

IsInf(x) == x >= Infinity

Min(a, b) == IF a <= b THEN a ELSE b

Max(a, b) == IF a >= b THEN a ELSE b

\* a + b of two non-negative numbers, either of which may be Infinity
FAdd(a, b) == IF IsInf(a) \/ IsInf(b) THEN Infinity ELSE a + b

\* RandomValues[k] / 1000 is a value Math.random() may return, in [0, 1)
RandomValues == <<0, 500, 999>>

Draws == 1..Len(RandomValues)

\* lo + Math.random() * width, for the draw r (thousandths)
Rnd(r, lo, width) == lo + ((r * width) \div 1000)

\* ------------------------------------------------------------------ bounds

MaxAgents == 3

MaxTime == 5

MaxCmds == 2

MaxInjectCalls == 2

MaxLineTick == 18

MaxFails == 1

\* ------------------------------------------------------------ ring: constants

INITIAL_TEMP == 25 * Scale

TARGET_TEMP == 22 * Scale

TEMP_THRESHOLD_HIGH == 28 * Scale

TEMP_THRESHOLD_LOW == 20 * Scale

\* 0.5 and 0.3
COOLING_RATE == (5 * Scale) \div 10

HEATING_RATE == (3 * Scale) \div 10

HistoryLimit == 50

\* the k-th value of the Math.random() stream that starts at `seed`
Random(seed, k) == RandomValues[((seed + k) % Len(RandomValues)) + 1]

Seeds == 0..(Len(RandomValues) - 1)

RECURSIVE SeqSum(_)
\* s.reduce((sum, x) => sum + x, 0), Infinity absorbing
SeqSum(s) == IF s = <<>> THEN 0 ELSE FAdd(SeqSum(SubSeq(s, 1, Len(s) - 1)), s[Len(s)])

\* the result of 0 / 0
NaN == 0 - Infinity

\* ------------------------------------------------------------ ring: functions

HealthStatuses == {"healthy", "warning", "failed", "healing"}

\* createInitialAgents with the neighbours of a line: the two ends do not wrap
createInitialAgentsNoWrap(count, seed) ==
    [k \in 1..count |->
        LET i == k - 1 IN
        [ id |-> i,
          temperature |-> Rnd(Random(seed, 2 * i), INITIAL_TEMP, 4 * Scale) - 2 * Scale,
          targetTemperature |-> TARGET_TEMP,
          load |-> Rnd(Random(seed, 2 * i + 1), 0, 50 * Scale) + 25 * Scale,
          fanSpeed |-> 50 * Scale,
          healthStatus |-> "healthy",
          neighbors |-> (IF i > 0 THEN <<i - 1>> ELSE <<>>)
                            \o (IF i < count - 1 THEN <<i + 1>> ELSE <<>>),
          isHealing |-> FALSE,
          communicating |-> FALSE ] ]

\* createInitialAgents(count); agent i is agents[i + 1]
createInitialAgents(count, seed) ==
    [k \in 1..count |->
        LET i == k - 1 IN
        [ id |-> i,
          temperature |-> Rnd(Random(seed, 2 * i), INITIAL_TEMP, 4 * Scale) - 2 * Scale,
          targetTemperature |-> TARGET_TEMP,
          load |-> Rnd(Random(seed, 2 * i + 1), 0, 50 * Scale) + 25 * Scale,
          fanSpeed |-> 50 * Scale,
          healthStatus |-> "healthy",
          neighbors |-> << (i - 1 + count) % count, (i + 1) % count >>,
          isHealing |-> FALSE,
          communicating |-> FALSE ] ]

\* the number of agents of s whose healthStatus is status
CountStatus(s, status) == Cardinality({k \in 1..Len(s) : s[k].healthStatus = status})

calculateStats(currentAgents) ==
    LET n == Len(currentAgents)
        temps == [k \in 1..n |-> currentAgents[k].temperature]
        loads == [k \in 1..n |-> currentAgents[k].load]
    IN  [ averageTemperature |-> IF n = 0 THEN NaN ELSE SeqSum(temps) \div n,
          healthyAgents |-> CountStatus(currentAgents, "healthy"),
          failedAgents |-> CountStatus(currentAgents, "failed"),
          totalLoad |-> SeqSum(loads) ]

\* updateFailed with the sign of the temperature change flipped: the agent cools
updateFailedCooling(agent) ==
    [agent EXCEPT !.temperature = Max(agent.temperature - HEATING_RATE * 2, 18 * Scale),
                  !.fanSpeed = 0]

\* the branch of updateAgent for a failed agent
updateFailed(agent) ==
    [agent EXCEPT !.temperature = Min(agent.temperature + HEATING_RATE * 2, 40 * Scale),
                  !.fanSpeed = 0]

\* failedNeighbors.reduce(...) / healthyNeighbors.length, then (extraLoad || 0)
extraLoadOf(failedNeighbors, healthyNeighbors) ==
    LET sum == SeqSum([k \in 1..Len(failedNeighbors) |-> failedNeighbors[k].load])
        n == Len(healthyNeighbors)
        quotient == IF n = 0
                    THEN (IF sum = 0 THEN NaN ELSE Infinity)
                    ELSE (IF IsInf(sum) THEN Infinity ELSE sum \div n)
    IN  IF quotient = NaN \/ quotient = 0 THEN 0 ELSE quotient

\* the target fan speed of updateAgent
targetFanSpeedOf(agent, effectiveLoad) ==
    LET base == IF agent.temperature > TEMP_THRESHOLD_HIGH THEN 100 * Scale
                ELSE IF agent.temperature > agent.targetTemperature + 2 * Scale THEN 75 * Scale
                ELSE IF agent.temperature < TEMP_THRESHOLD_LOW THEN 25 * Scale
                ELSE 50 * Scale
    IN  IF effectiveLoad > 60 * Scale THEN Min(100 * Scale, base + 20 * Scale) ELSE base

\* clampTemperature without the ceiling: Math.max(18, newTemp)
clampTemperatureNoCeiling(newTemp) == Max(18 * Scale, newTemp)

\* Math.max(18, Math.min(40, newTemp))
clampTemperature(newTemp) == Max(18 * Scale, Min(40 * Scale, newTemp))

\* effectiveLoad > agent.load ? effectiveLoad * 0.95 : agent.load
nextLoad(agent, effectiveLoad) ==
    IF effectiveLoad > agent.load
    THEN (IF IsInf(effectiveLoad) THEN Infinity ELSE (effectiveLoad * 95) \div 100)
    ELSE agent.load

\* the branch of updateAgent for an agent that has not failed
updateWorking(agent, allAgents) ==
    LET neighborAgents == [k \in 1..Len(agent.neighbors) |-> allAgents[agent.neighbors[k] + 1]]
        failedNeighbors == SelectSeq(neighborAgents, LAMBDA n : n.healthStatus = "failed")
        healthyNeighbors == SelectSeq(neighborAgents,
                               LAMBDA n : n.healthStatus = "healthy" \/ n.healthStatus = "healing")
        startHealing == Len(failedNeighbors) > 0 /\ agent.healthStatus = "healthy"
        endHealing == ~startHealing /\ agent.isHealing /\ Len(failedNeighbors) = 0
        status1 == IF startHealing THEN "healing"
                   ELSE IF endHealing THEN "healthy" ELSE agent.healthStatus
        isHealing == IF startHealing THEN TRUE
                     ELSE IF endHealing THEN FALSE ELSE agent.isHealing
        extraLoad == extraLoadOf(failedNeighbors, healthyNeighbors)
        effectiveLoad == FAdd(agent.load, extraLoad)
        targetFanSpeed == targetFanSpeedOf(agent, effectiveLoad)
        newFanSpeed == agent.fanSpeed + (((targetFanSpeed - agent.fanSpeed) * 3) \div 10)
        coolingEffect == (newFanSpeed * COOLING_RATE) \div (100 * Scale)
        heatingEffect == IF IsInf(effectiveLoad) THEN Infinity
                         ELSE (effectiveLoad * HEATING_RATE) \div (100 * Scale)
        newTemp == IF IsInf(heatingEffect) THEN Infinity
                   ELSE agent.temperature + (heatingEffect - coolingEffect)
        status2 == IF newTemp > 35 * Scale THEN "warning"
                   ELSE IF newTemp <= agent.targetTemperature + 3 * Scale /\ status1 = "warning"
                        THEN (IF isHealing THEN "healing" ELSE "healthy")
                        ELSE status1
    IN  [agent EXCEPT !.temperature = clampTemperature(newTemp),
                      !.fanSpeed = newFanSpeed,
                      !.healthStatus = status2,
                      !.load = nextLoad(agent, effectiveLoad),
                      !.isHealing = isHealing,
                      !.communicating = Len(failedNeighbors) > 0]

\* updateAgent that never sets the communicating flag
updateAgentSilent(agent, allAgents) ==
    IF agent.healthStatus = "failed" THEN updateFailed(agent)
    ELSE [updateWorking(agent, allAgents) EXCEPT !.communicating = FALSE]

\* updateAgent that leaves the isHealing flag as it was
updateAgentKeepsFlag(agent, allAgents) ==
    IF agent.healthStatus = "failed" THEN updateFailed(agent)
    ELSE [updateWorking(agent, allAgents) EXCEPT !.isHealing = agent.isHealing]

updateAgent(agent, allAgents) ==
    IF agent.healthStatus = "failed" THEN updateFailed(agent)
    ELSE updateWorking(agent, allAgents)

\* Math.round(temperature * 10) / 10
roundTenth(t) == ((t + (Scale \div 20)) \div (Scale \div 10)) * (Scale \div 10)

\* the entry simulationStep appends to temperatureHistory
historyEntry(t, updatedAgents) ==
    [ time |-> t,
      temps |-> [k \in 1..Len(updatedAgents) |-> roundTenth(updatedAgents[k].temperature)] ]

\* lastEntries that keeps the oldest n entries: newHistory.slice(0, 50)
lastEntriesOldest(h, n) == IF Len(h) <= n THEN h ELSE SubSeq(h, 1, n)

\* newHistory.slice(-50)
lastEntries(h, n) == IF Len(h) <= n THEN h ELSE SubSeq(h, Len(h) - n + 1, Len(h))

\* failAgent that leaves the fan as it was
failAgentKeepsFan(agent) == [agent EXCEPT !.healthStatus = "failed"]

\* { ...agent, healthStatus: "failed", fanSpeed: 0 }
failAgent(agent) == [agent EXCEPT !.healthStatus = "failed", !.fanSpeed = 0]

\* healAgent that also restarts the fan at its initial speed
healAgentRestartsFan(agent) ==
    [agent EXCEPT !.healthStatus = "healthy", !.isHealing = FALSE, !.fanSpeed = 50 * Scale]

\* { ...agent, healthStatus: "healthy", isHealing: false }
healAgent(agent) == [agent EXCEPT !.healthStatus = "healthy", !.isHealing = FALSE]

\* -------------------------------------------------- programs that are not loaded

\* the variables of the ring hook while another program is loaded
RingIdle ==
    /\ agentCount = 0
    /\ agents = <<>>
    /\ isRunning = FALSE
    /\ temperatureHistory = <<>>
    /\ time = 0
    /\ stats = [averageTemperature |-> 0, healthyAgents |-> 0, failedAgents |-> 0, totalLoad |-> 0]

\* the variables of the tick-counter hook while another program is loaded
TickIdle ==
    /\ scenario = "none"
    /\ step = 0
    /\ isPlaying = FALSE
    /\ faultInjected = FALSE
    /\ data = [agents |-> <<>>]

\* the variables of the line script while another program is loaded
LineIdle ==
    /\ script = "none"
    /\ lineAgents = <<>>
    /\ state = [running |-> FALSE, tick |-> 0, history |-> <<>>, data |-> [renMix |-> 0]]
    /\ loopId = 0
    /\ timers = {}
    /\ bias = <<>>
    /\ fails = 0

\* ------------------------------------------------------------ ring: actions

AgentIds == 0..(agentCount - 1)

InitRing ==
    /\ page = "ring"
    /\ agentCount \in 1..MaxAgents
    /\ \E seed \in Seeds : agents = createInitialAgents(agentCount, seed)
    /\ isRunning = FALSE
    /\ temperatureHistory = <<>>
    /\ time = 0
    /\ stats = calculateStats(agents)
    /\ lastOp = "init"
    /\ lastId = -1
    /\ cmds = 0
    /\ injectCalls = 0
    /\ faultyTicks = 0
    /\ TickIdle
    /\ LineIdle

\* one firing of the interval: simulationStep, explored while time < maxTime
simulationStepUpTo(maxTime) ==
    /\ page = "ring"
    /\ isRunning
    /\ time < maxTime
    /\ LET updatedAgents == [k \in 1..Len(agents) |-> updateAgent(agents[k], agents)]
       IN  /\ agents' = updatedAgents
           /\ temperatureHistory' =
                  lastEntries(Append(temperatureHistory, historyEntry(time, updatedAgents)),
                              HistoryLimit)
           /\ stats' = calculateStats(updatedAgents)
    /\ time' = time + 1
    /\ lastOp' = "simulationStep"
    /\ lastId' = -1
    /\ UNCHANGED <<page, agentCount, isRunning, cmds, injectCalls, faultyTicks, tickVars, lineVars, bias, fails>>

\* one firing of the interval, explored up to MaxTime steps
simulationStep == simulationStepUpTo(MaxTime)

toggleSimulation ==
    /\ page = "ring"
    /\ isRunning' = ~isRunning
    /\ lastOp' = "toggleSimulation"
    /\ lastId' = -1
    /\ UNCHANGED <<page, agentCount, agents, temperatureHistory, time, stats, cmds, injectCalls, faultyTicks, tickVars, lineVars, bias, fails>>

resetSimulation ==
    /\ page = "ring"
    /\ \E seed \in Seeds : agents' = createInitialAgents(agentCount, seed)
    /\ temperatureHistory' = <<>>
    /\ time' = 0
    /\ isRunning' = FALSE
    /\ stats' = calculateStats(agents')
    /\ lastOp' = "resetSimulation"
    /\ lastId' = -1
    /\ cmds' = 0
    /\ UNCHANGED <<page, agentCount, injectCalls, faultyTicks, tickVars, lineVars, bias, fails>>

triggerFailure(agentId) ==
    /\ page = "ring"
    /\ cmds < MaxCmds
    /\ agents' = [k \in 1..Len(agents) |->
                     IF agents[k].id = agentId THEN failAgent(agents[k]) ELSE agents[k]]
    /\ stats' = calculateStats(agents')
    /\ lastOp' = "triggerFailure"
    /\ lastId' = agentId
    /\ cmds' = cmds + 1
    /\ UNCHANGED <<page, agentCount, isRunning, temperatureHistory, time, injectCalls, faultyTicks, tickVars, lineVars, bias, fails>>

repairAgent(agentId) ==
    /\ page = "ring"
    /\ cmds < MaxCmds
    /\ agents' = [k \in 1..Len(agents) |->
                     IF agents[k].id = agentId THEN healAgent(agents[k]) ELSE agents[k]]
    /\ stats' = calculateStats(agents')
    /\ lastOp' = "repairAgent"
    /\ lastId' = agentId
    /\ cmds' = cmds + 1
    /\ UNCHANGED <<page, agentCount, isRunning, temperatureHistory, time, injectCalls, faultyTicks, tickVars, lineVars, bias, fails>>

NextRing ==
    \/ simulationStep
    \/ toggleSimulation
    \/ resetSimulation
    \/ \E agentId \in AgentIds : triggerFailure(agentId)
    \/ \E agentId \in AgentIds : repairAgent(agentId)

SpecRing == InitRing /\ [][NextRing]_vars

\* the agentCount values a caller may pass: the hook does not validate its argument
AgentCounts == (0 - 1)..MaxAgents

\* useSimulation(agentCount) for any agentCount
InitRingAnyCount ==
    /\ page = "ring"
    /\ agentCount \in AgentCounts
    /\ \E seed \in Seeds : agents = createInitialAgents(agentCount, seed)
    /\ isRunning = FALSE
    /\ temperatureHistory = <<>>
    /\ time = 0
    /\ stats = calculateStats(agents)
    /\ lastOp = "init"
    /\ lastId = -1
    /\ cmds = 0
    /\ injectCalls = 0
    /\ faultyTicks = 0
    /\ TickIdle
    /\ LineIdle

SpecRingAnyCount == InitRingAnyCount /\ [][NextRing]_vars

\* ------------------------------------------------- tick-counter hook: functions

Scenarios == {"prototype", "vision"}

maxSteps(sc) == IF sc = "prototype" THEN 200 ELSE 250

numAgents(sc) == IF sc = "prototype" THEN 6 ELSE 20

faultStep(sc) == IF sc = "prototype" THEN 50 ELSE 100

targetTemp == 25 * Scale

\* |x|
Abs(x) == IF x < 0 THEN 0 - x ELSE x

\* the phase label of calculateSimulationData
phaseOf(sc, currentStep, manualFault) ==
    IF currentStep < faultStep(sc) THEN "Stable Operation"
    ELSE IF currentStep = faultStep(sc) \/ manualFault THEN "Fault Detected"
    ELSE IF currentStep < faultStep(sc) + 50 THEN "Self-Healing Response"
    ELSE "System Stabilized"

\* isFaultyAgent that designates the last two agents of vision, not the last three
isFaultyAgentLastTwo(sc, i) ==
    IF sc = "prototype" THEN i = numAgents(sc) - 1
    ELSE i = numAgents(sc) - 1 \/ i = numAgents(sc) - 2

isFaultyAgent(sc, i) ==
    IF sc = "prototype" THEN i = numAgents(sc) - 1
    ELSE i = numAgents(sc) - 1 \/ i = numAgents(sc) - 2 \/ i = numAgents(sc) - 3

\* the radius of the compensating neighbourhood
compensationRadius(sc) == IF sc = "vision" THEN 5 ELSE 2

\* the spread of the temperature jitter, in hundredths of a degree per unit of
\* (Math.random() - 0.5): 0.2 / 1 after the fault, 0.1 / 0.4 before it
otherSpread(sc) == IF sc = "vision" THEN 2 * (Scale \div 10) ELSE Scale

beforeSpread(sc) == IF sc = "vision" THEN Scale \div 10 ELSE 4 * (Scale \div 10)

\* base + (Math.random() - 0.5) * spread, for the draw r
Jitter(r, base, spread) == base + (((r - 500) * spread) \div 1000)

\* agentData whose neighbours compensate for 150 ticks, longer than the fault lasts
agentDataLongCompensation(sc, i, currentStep, manualFault, r1, r2, r3) ==
    IF currentStep >= faultStep(sc) \/ manualFault
    THEN IF isFaultyAgent(sc, i) /\ currentStep < faultStep(sc) + 100
         THEN [ id |-> i,
                temperature |-> Rnd(r1, targetTemp + 5 * Scale, 3 * Scale),
                fanSpeed |-> 0,
                power |-> 0,
                status |-> "faulty" ]
         ELSE IF ~isFaultyAgent(sc, i)
                 /\ Abs(i - (numAgents(sc) - 1)) <= compensationRadius(sc)
         THEN IF currentStep < faultStep(sc) + 150
              THEN [ id |-> i,
                     temperature |-> targetTemp - (Scale \div 2) - Rnd(r3, 0, Scale),
                     fanSpeed |-> Rnd(r1, 75 * Scale, 20 * Scale),
                     power |-> Rnd(r2, 500 * Scale, 100 * Scale),
                     status |-> "compensating" ]
              ELSE [ id |-> i,
                     temperature |-> Jitter(r3, targetTemp, Scale \div 2),
                     fanSpeed |-> Rnd(r1, 55 * Scale, 10 * Scale),
                     power |-> Rnd(r2, 440 * Scale, 20 * Scale),
                     status |-> "healthy" ]
         ELSE [ id |-> i,
                temperature |-> Jitter(r1, targetTemp, otherSpread(sc)),
                fanSpeed |-> Rnd(r2, 50 * Scale, 10 * Scale),
                power |-> Rnd(r3, 430 * Scale, 20 * Scale),
                status |-> "healthy" ]
    ELSE [ id |-> i,
           temperature |-> Jitter(r1, targetTemp, beforeSpread(sc)),
           fanSpeed |-> Rnd(r2, 50 * Scale, 5 * Scale),
           power |-> Rnd(r3, 430 * Scale, 10 * Scale),
           status |-> "healthy" ]

\* the agent calculateSimulationData generates for index i; r1, r2, r3 are the
\* values Math.random() returns to it, in the order of the calls
agentData(sc, i, currentStep, manualFault, r1, r2, r3) ==
    IF currentStep >= faultStep(sc) \/ manualFault
    THEN IF isFaultyAgent(sc, i) /\ currentStep < faultStep(sc) + 100
         THEN [ id |-> i,
                temperature |-> Rnd(r1, targetTemp + 5 * Scale, 3 * Scale),
                fanSpeed |-> 0,
                power |-> 0,
                status |-> "faulty" ]
         ELSE IF ~isFaultyAgent(sc, i)
                 /\ Abs(i - (numAgents(sc) - 1)) <= compensationRadius(sc)
         THEN IF currentStep < faultStep(sc) + 50
              THEN [ id |-> i,
                     temperature |-> targetTemp - (Scale \div 2) - Rnd(r3, 0, Scale),
                     fanSpeed |-> Rnd(r1, 75 * Scale, 20 * Scale),
                     power |-> Rnd(r2, 500 * Scale, 100 * Scale),
                     status |-> "compensating" ]
              ELSE [ id |-> i,
                     temperature |-> Jitter(r3, targetTemp, Scale \div 2),
                     fanSpeed |-> Rnd(r1, 55 * Scale, 10 * Scale),
                     power |-> Rnd(r2, 440 * Scale, 20 * Scale),
                     status |-> "healthy" ]
         ELSE [ id |-> i,
                temperature |-> Jitter(r1, targetTemp, otherSpread(sc)),
                fanSpeed |-> Rnd(r2, 50 * Scale, 10 * Scale),
                power |-> Rnd(r3, 430 * Scale, 20 * Scale),
                status |-> "healthy" ]
    ELSE [ id |-> i,
           temperature |-> Jitter(r1, targetTemp, beforeSpread(sc)),
           fanSpeed |-> Rnd(r2, 50 * Scale, 5 * Scale),
           power |-> Rnd(r3, 430 * Scale, 10 * Scale),
           status |-> "healthy" ]

\* recoveryTime of calculateSimulationData
recoveryTimeOf(sc, currentStep) ==
    IF currentStep > faultStep(sc) /\ currentStep < faultStep(sc) + 50
    THEN currentStep - faultStep(sc) ELSE 0

\* efficiency of calculateSimulationData, in hundredths
efficiencyOf(sc, currentStep) ==
    IF sc = "vision"
    THEN (IF currentStep > faultStep(sc) + 100 THEN 100 ELSE 85)
    ELSE (IF currentStep < faultStep(sc) THEN 42
          ELSE IF currentStep > faultStep(sc) + 100 THEN 38 ELSE 30)

\* metricsOf with the sample variance (divisor n - 1) in place of the population's
metricsOfSampleVariance(sc, as) ==
    LET n == numAgents(sc)
        avgTemp == SeqSum([k \in 1..Len(as) |-> as[k].temperature]) \div n
        squares == [k \in 1..Len(as) |->
                       (as[k].temperature - avgTemp) * (as[k].temperature - avgTemp)]
    IN  [ avgTemp |-> avgTemp,
          variance |-> SeqSum(squares) \div (n - 1),
          avgPower |-> SeqSum([k \in 1..Len(as) |-> as[k].power]) \div n ]

\* avgTemp, variance (in Scale * Scale) and avgPower of calculateSimulationData
metricsOf(sc, as) ==
    LET n == numAgents(sc)
        avgTemp == SeqSum([k \in 1..Len(as) |-> as[k].temperature]) \div n
        squares == [k \in 1..Len(as) |->
                       (as[k].temperature - avgTemp) * (as[k].temperature - avgTemp)]
    IN  [ avgTemp |-> avgTemp,
          variance |-> SeqSum(squares) \div n,
          avgPower |-> SeqSum([k \in 1..Len(as) |-> as[k].power]) \div n ]

calculateSimulationData(sc, currentStep, manualFault, seed) ==
    LET as == [k \in 1..numAgents(sc) |->
                  agentData(sc, k - 1, currentStep, manualFault,
                            Random(seed, 3 * (k - 1)),
                            Random(seed, 3 * (k - 1) + 1),
                            Random(seed, 3 * (k - 1) + 2))]
        m == metricsOf(sc, as)
    IN  [ agents |-> as,
          avgTemp |-> m.avgTemp,
          variance |-> m.variance,
          avgPower |-> m.avgPower,
          recoveryTime |-> recoveryTimeOf(sc, currentStep),
          efficiency |-> efficiencyOf(sc, currentStep),
          phase |-> phaseOf(sc, currentStep, manualFault) ]

\* canInjectFault of the hook's result
canInjectFault == ~faultInjected /\ step < faultStep(scenario)

\* --------------------------------------------------- tick-counter hook: actions

InitTick ==
    /\ page = "tick"
    /\ scenario \in Scenarios
    /\ step = 0
    /\ isPlaying = FALSE
    /\ faultInjected = FALSE
    /\ \E seed \in Seeds : data = calculateSimulationData(scenario, 0, FALSE, seed)
    /\ lastOp = "init"
    /\ lastId = -1
    /\ cmds = 0
    /\ injectCalls = 0
    /\ faultyTicks = 0
    /\ RingIdle
    /\ LineIdle

\* the snapshot d shows a faulty agent
HasFaulty(d) == \E k \in 1..Len(d.agents) : d.agents[k].status = "faulty"

\* nextStep that stays at maxSteps instead of wrapping to 0
nextStepStops(sc, prev) == IF prev >= maxSteps(sc) THEN prev ELSE prev + 1

\* the step the interval callback moves to
nextStep(sc, prev) == IF prev >= maxSteps(sc) THEN 0 ELSE prev + 1

\* one firing of the interval of the effect
tickInterval ==
    /\ page = "tick"
    /\ isPlaying
    /\ LET next == nextStep(scenario, step)
       IN  /\ step' = next
           /\ \E seed \in Seeds :
                  data' = calculateSimulationData(scenario, next, faultInjected, seed)
    /\ faultyTicks' = IF HasFaulty(data') /\ HasFaulty(data) THEN faultyTicks + 1 ELSE 0
    /\ lastOp' = "tickInterval"
    /\ UNCHANGED <<page, scenario, isPlaying, faultInjected, lastId, cmds, injectCalls, ringVars, lineVars, bias, fails>>

handlePlayPause ==
    /\ page = "tick"
    /\ isPlaying' = ~isPlaying
    /\ lastOp' = "handlePlayPause"
    /\ UNCHANGED <<page, scenario, step, faultInjected, data, lastId, cmds, injectCalls, faultyTicks, ringVars, lineVars, bias, fails>>

\* handleReset without setFaultInjected(false)
handleResetKeepsLatch ==
    /\ page = "tick"
    /\ step' = 0
    /\ isPlaying' = FALSE
    /\ \E seed \in Seeds : data' = calculateSimulationData(scenario, 0, FALSE, seed)
    /\ lastOp' = "handleReset"
    /\ injectCalls' = 0
    /\ faultyTicks' = 0
    /\ UNCHANGED <<page, scenario, faultInjected, lastId, cmds, ringVars, lineVars, bias, fails>>

handleReset ==
    /\ page = "tick"
    /\ step' = 0
    /\ isPlaying' = FALSE
    /\ faultInjected' = FALSE
    /\ \E seed \in Seeds : data' = calculateSimulationData(scenario, 0, FALSE, seed)
    /\ lastOp' = "handleReset"
    /\ injectCalls' = 0
    /\ faultyTicks' = 0
    /\ UNCHANGED <<page, scenario, lastId, cmds, ringVars, lineVars, bias, fails>>

\* injectFault without the test of the latch
injectFaultUnguarded(seed) ==
    /\ faultInjected' = TRUE
    /\ step' = faultStep(scenario)
    /\ data' = calculateSimulationData(scenario, faultStep(scenario), TRUE, seed)

\* the state changes of handleInjectFault
injectFault(seed) ==
    IF ~faultInjected
    THEN /\ faultInjected' = TRUE
         /\ step' = faultStep(scenario)
         /\ data' = calculateSimulationData(scenario, faultStep(scenario), TRUE, seed)
    ELSE UNCHANGED <<faultInjected, step, data>>

handleInjectFault ==
    /\ page = "tick"
    /\ injectCalls < MaxInjectCalls
    /\ \E seed \in Seeds : injectFault(seed)
    /\ lastOp' = "handleInjectFault"
    /\ injectCalls' = injectCalls + 1
    /\ faultyTicks' = IF faultInjected' # faultInjected THEN 0 ELSE faultyTicks
    /\ UNCHANGED <<page, scenario, isPlaying, lastId, cmds, ringVars, lineVars, bias, fails>>

NextTick ==
    \/ tickInterval
    \/ handlePlayPause
    \/ handleReset
    \/ handleInjectFault

SpecTick == InitTick /\ [][NextTick]_vars

\* The hook with its interval: while isPlaying holds the callback keeps firing.
\* This is weak fairness of tickInterval, which is enabled exactly while the
\* hook is loaded and playing: either it is disabled again and again, or it
\* fires again and again.
FairSpecTick ==
    /\ SpecTick
    /\ ([]<>(~(page = "tick" /\ isPlaying)) \/ []<><<tickInterval>>_vars)

\* ------------------------------------------------------- line script: functions

Milli == 10 * 10 * 10

\* Math.sin(tick / 25) in thousandths, for tick = 0, 1, 2, ...
SinTable ==
    << 0, 40, 80, 120, 159, 199, 238, 276, 315, 352,
       389, 426, 462, 497, 531, 565, 597, 629, 659, 689,
       717, 745, 771, 796, 819, 841, 862, 882, 900, 917,
       932, 946, 958, 969, 978, 985, 991, 996, 999, 1000,
       1000, 998, 994, 989, 982, 974, 964, 953, 940, 925,
       909, 892, 873, 853, 831, 808, 784, 759, 732, 704,
       675, 645, 614, 582, 549, 516, 481, 445, 409, 372,
       335, 297, 259, 220, 181, 141, 101, 62, 22, -18,
       -58, -98, -138, -177, -217, -256, -294, -332, -369, -406,
       -443, -478, -513, -547, -580, -612, -643, -673, -702, -730,
       -757, -782, -807, -830, -851, -872, -890, -908, -924, -939,
       -952, -963, -973, -982, -988, -994, -997, -999, -1000, -999,
       -996, -992, -986, -979, -970, -959, -947, -933, -918, -901,
       -883 >>

\* Math.sin(tick / 25)
sin25(tick) == SinTable[tick + 1]

\* clamp = (v, a, b) => Math.max(a, Math.min(b, v))
clamp(v, a, b) == Max(a, Min(b, v))

\* rnd = (a, b) => Math.random() * (b - a) + a, for the draw r
rnd(r, a, b) == ((r * (b - a)) \div 1000) + a

agentNames == <<"Z1-A", "Z1-B", "Z2-A", "Z2-B", "Z3-A", "Z3-B">>

Scripts == {"newWeb", "HacktonWeb1", "SmartGrid"}

\* The draws Math.random() returns to agent k lean as b[k] says: a draw that
\* heats the agent (temperature, load, jitter, drift) is b[k], a draw that cools
\* it (power, settling, renewables) is 999 - b[k].
Biases ==
    { [k \in 1..Len(agentNames) |-> 999],
      [k \in 1..Len(agentNames) |-> 0],
      [k \in 1..Len(agentNames) |-> 500],
      [k \in 1..Len(agentNames) |-> IF k % 2 = 1 THEN 999 ELSE 0] }

heating(b, k) == b[k]

cooling(b, k) == 999 - b[k]

\* the initial state.data (the field swarmStep reads)
initialData == [renMix |-> 32 * Milli]

\* the initial state.data of the SmartGrid script
smartGridData == [renMix |-> 34 * Milli]

\* the initial state.data of the copy sc
dataOf(sc) == IF sc = "SmartGrid" THEN smartGridData ELSE initialData

\* the change of state.data.renMix in step(), for the draw r
renMixDrift(sc, r) == IF sc = "SmartGrid" THEN rnd(r, -1000, 1200) ELSE rnd(r, -800, 1000)

\* the values agents.map(...) and reset() draw for agent k
freshAgent(b, k, neighbors) ==
    [ id |-> agentNames[k],
      temp |-> rnd(heating(b, k), 25 * Milli, 28 * Milli),
      load |-> rnd(heating(b, k), 350, 650),
      power |-> rnd(cooling(b, k), 2500, 4500),
      neighbors |-> neighbors,
      status |-> "OK" ]

\* the neighbor pairs (line): agents[i-1] for i > 0, agents[i+1] for i < length - 1
lineNeighbors(k) ==
    (IF k > 1 THEN <<agentNames[k - 1]>> ELSE <<>>)
        \o (IF k < Len(agentNames) THEN <<agentNames[k + 1]>> ELSE <<>>)

initialLineAgents(b) == [k \in 1..Len(agentNames) |-> freshAgent(b, k, lineNeighbors(k))]

\* const agents of the copy sc: the SmartGrid script has none
agentsOf(sc, b) == IF sc = "SmartGrid" THEN <<>> ELSE initialLineAgents(b)

\* agentById, as an index into agents
agentIndex(ags, id) == CHOOSE k \in 1..Len(ags) : ags[k].id = id

\* physics without the floor of the temperature clamp
physicsNoFloor(a, b, k, tick, renMix) ==
    LET renBoost == ((renMix - 30 * Milli) * 2) \div 1000
        heat == a.load * 8
        cool == (a.power * (1800 + renBoost)) \div 1000
        change == ((5 * heat) \div 100) - ((6 * cool) \div 100) + rnd(heating(b, k), -150, 200)
    IN  [a EXCEPT !.temp = Min(42 * Milli, a.temp + change),
                  !.load = clamp(a.load + rnd(heating(b, k), -20, 20), 150, 950)]

\* 1) the local update of one agent
physics(a, b, k, tick, renMix) ==
    LET ambient == 24 * Milli + sin25(tick)
        renBoost == ((renMix - 30 * Milli) * 2) \div 1000
        heat == a.load * 8
        cool == (a.power * (1800 + renBoost)) \div 1000
        change == ((5 * heat) \div 100) - ((6 * cool) \div 100) + rnd(heating(b, k), -150, 200)
    IN  [a EXCEPT !.temp = clamp(a.temp + change, ambient - Milli, 42 * Milli),
                  !.load = clamp(a.load + rnd(heating(b, k), -20, 20), 150, 950)]

RECURSIVE shareDuty(_, _, _)
\* a.neighbors.forEach(nid => {...}) for the hot agent at index k, from neighbour j on
shareDuty(ags, k, j) ==
    IF j > Len(ags[k].neighbors) THEN ags
    ELSE LET n == agentIndex(ags, ags[k].neighbors[j])
             raised == [ags EXCEPT ![n].power = clamp(ags[n].power + 150, 1500, 6000)]
             lowered == [raised EXCEPT ![k].power = clamp(raised[k].power - 120, 1000, 6000)]
         IN  shareDuty(lowered, k, j + 1)

RECURSIVE balanceHot(_, _)
\* hot.forEach(a => {...}), hot given as the indices still to visit
balanceHot(ags, hot) ==
    IF hot = <<>> THEN ags
    ELSE LET k == Head(hot)
             marked == [ags EXCEPT ![k].status = "HOT"]
         IN  balanceHot(shareDuty(marked, k, 1), Tail(hot))

\* agents.filter(a => a.temp > 33), as indices in order
hotIndices(ags) == SelectSeq([k \in 1..Len(ags) |-> k], LAMBDA k : ags[k].temp > 33 * Milli)

\* nodes that look healthy slowly settle
settle(ags, b) ==
    [k \in 1..Len(ags) |->
        IF ags[k].temp <= 33 * Milli /\ ags[k].status # "FAIL"
        THEN [ags[k] EXCEPT !.status = "OK",
                            !.power = clamp(ags[k].power + rnd(cooling(b, k), -80, 80), 1500, 6000)]
        ELSE ags[k]]

RECURSIVE boostNeighbors(_, _, _)
\* failing.neighbors.forEach(nid => {...}), from neighbour j on
boostNeighbors(ags, k, j) ==
    IF j > Len(ags[k].neighbors) THEN ags
    ELSE LET n == agentIndex(ags, ags[k].neighbors[j])
         IN  boostNeighbors([ags EXCEPT ![n].power = clamp(ags[n].power + 500, 1500, 6000)],
                            k, j + 1)

\* the rare failure of the agent at index k (0: Math.random() >= 0.02, none fails)
failure(ags, k) ==
    IF k = 0 THEN ags
    ELSE boostNeighbors([ags EXCEPT ![k].status = "FAIL",
                                    ![k].power = clamp((ags[k].power * 2) \div 10, 200, 1000)],
                        k, 1)

\* swarmStep of the copy sc of the script; failing is the index that fails, or 0
swarmStep(sc, ags, b, tick, renMix, failing) ==
    LET moved == [k \in 1..Len(ags) |-> physics(ags[k], b, k, tick, renMix)]
        balanced == balanceHot(moved, hotIndices(moved))
    IN  IF sc = "newWeb" THEN failure(settle(balanced, b), failing)
        ELSE settle(failure(balanced, failing), b)

LineHistoryLimit == 120

\* state.history.push({...state.data}); if (state.history.length > 120) state.history.shift()
pushHistory(h, d) == IF Len(h) + 1 > LineHistoryLimit THEN Tail(Append(h, d)) ELSE Append(h, d)

\* -------------------------------------------------------- line script: actions

\* the script as loaded: its top level ends with start()
InitLine ==
    /\ page = "line"
    /\ script \in Scripts
    /\ bias \in Biases
    /\ lineAgents = agentsOf(script, bias)
    /\ state = [running |-> TRUE, tick |-> 0, history |-> <<>>, data |-> dataOf(script)]
    /\ loopId = 1
    /\ timers = {1}
    /\ fails = 0
    /\ lastOp = "init"
    /\ lastId = -1
    /\ cmds = 0
    /\ injectCalls = 0
    /\ faultyTicks = 0
    /\ RingIdle
    /\ TickIdle

\* Math.floor(Math.random() * agents.length) + 1, for every draw; a script
\* without agents has no swarmStep and no failure
failingIndices(ags) ==
    IF ags = <<>> THEN {}
    ELSE { ((RandomValues[d] * Len(ags)) \div 1000) + 1 : d \in Draws }

\* a handle setInterval may return: one that no active interval has
freshHandle == CHOOSE h \in 1..(Cardinality(timers) + 1) : h \notin timers

\* one firing of an interval: step(), explored while tick < maxTick and with at
\* most maxFails spontaneous failures
lineStepWithin(maxTick, maxFails) ==
    /\ page = "line"
    /\ timers # {}
    /\ state.tick < maxTick
    /\ \E failing \in {0} \cup failingIndices(lineAgents) :
          /\ failing # 0 => fails < maxFails
          /\ fails' = IF failing # 0 THEN fails + 1 ELSE fails
          /\ lastId' = failing - 1
          /\ LET tick == state.tick + 1
                 renMix == clamp(state.data.renMix + renMixDrift(script, cooling(bias, 1)),
                                 15 * Milli, 80 * Milli)
                 d == [state.data EXCEPT !.renMix = renMix]
             IN  /\ state' = [state EXCEPT !.tick = tick, !.data = d,
                                           !.history = pushHistory(state.history, d)]
                 /\ lineAgents' = swarmStep(script, lineAgents, bias, tick, renMix, failing)
    /\ lastOp' = "step"
    /\ UNCHANGED <<page, script, loopId, timers, bias, cmds, injectCalls, faultyTicks, ringVars, tickVars>>

\* one firing of an interval, explored up to MaxLineTick ticks and MaxFails failures
lineStep == lineStepWithin(MaxLineTick, MaxFails)

\* start() without the loopId guard: every call creates an interval
startUnguarded ==
    /\ page = "line"
    /\ loopId' = freshHandle
    /\ timers' = timers \cup {freshHandle}
    /\ state' = [state EXCEPT !.running = TRUE]
    /\ lastOp' = "start"
    /\ lastId' = -1
    /\ UNCHANGED <<page, script, lineAgents, bias, fails, cmds, injectCalls, faultyTicks, ringVars, tickVars>>

\* function start()
start ==
    /\ page = "line"
    /\ IF loopId # 0
       THEN UNCHANGED <<loopId, timers, state>>
       ELSE /\ loopId' = freshHandle
            /\ timers' = timers \cup {freshHandle}
            /\ state' = [state EXCEPT !.running = TRUE]
    /\ lastOp' = "start"
    /\ lastId' = -1
    /\ UNCHANGED <<page, script, lineAgents, bias, fails, cmds, injectCalls, faultyTicks, ringVars, tickVars>>

\* the state changes of stop(): the handle and the running flag afterwards
stopped == IF loopId # 0
           THEN [loopId |-> 0, timers |-> timers \ {loopId}, running |-> FALSE]
           ELSE [loopId |-> loopId, timers |-> timers, running |-> state.running]

\* stop() without clearInterval: the handle is forgotten, the interval stays active
stopKeepsTimer ==
    /\ page = "line"
    /\ loopId' = 0
    /\ timers' = timers
    /\ state' = [state EXCEPT !.running = IF loopId # 0 THEN FALSE ELSE state.running]
    /\ lastOp' = "stop"
    /\ lastId' = -1
    /\ UNCHANGED <<page, script, lineAgents, bias, fails, cmds, injectCalls, faultyTicks, ringVars, tickVars>>

\* function stop()
stop ==
    /\ page = "line"
    /\ loopId' = stopped.loopId
    /\ timers' = stopped.timers
    /\ state' = [state EXCEPT !.running = stopped.running]
    /\ lastOp' = "stop"
    /\ lastId' = -1
    /\ UNCHANGED <<page, script, lineAgents, bias, fails, cmds, injectCalls, faultyTicks, ringVars, tickVars>>

\* function reset()
reset ==
    /\ page = "line"
    /\ loopId' = stopped.loopId
    /\ timers' = stopped.timers
    /\ state' = [running |-> stopped.running, tick |-> 0, history |-> <<>>,
                 data |-> dataOf(script)]
    /\ bias' \in Biases
    /\ lineAgents' = [k \in 1..Len(lineAgents) |->
                         freshAgent(bias', k, lineAgents[k].neighbors)]
    /\ fails' = 0
    /\ lastOp' = "reset"
    /\ lastId' = -1
    /\ UNCHANGED <<page, script, cmds, injectCalls, faultyTicks, ringVars, tickVars>>

NextLine ==
    \/ lineStep
    \/ start
    \/ stop
    \/ reset

SpecLine == InitLine /\ [][NextLine]_vars

\* ---------------------------------------------------------------- long runs

\* enough steps to fill the ring hook's history and push entries out of it
LongTime == HistoryLimit + 2

\* enough steps to fill a script's history and push entries out of it
LongLineTick == LineHistoryLimit + 2

\* the ring hook or a script left running: no failure, repair, stop or reset
InitLong == InitRing \/ InitLine

NextLong ==
    \/ simulationStepUpTo(LongTime)
    \/ toggleSimulation
    \/ lineStepWithin(LongLineTick, 0)

SpecLong == InitLong /\ [][NextLong]_vars

\* ------------------------------------------------------------- the repository

Init == InitRing \/ InitTick \/ InitLine

Next == NextRing \/ NextTick \/ NextLine

Spec == Init /\ [][Next]_vars

\* ------------------------------------------------------------------ properties

\* the agents of the ring hook, as indices
RingIndices == 1..Len(agents)

\* the agents of the line script, as indices
LineIndices == 1..Len(lineAgents)

\* C1: ring hook - in every reachable state every agent has its temperature in
\* [18, 40] and its fanSpeed in [0, 100].
C1_RingTemperatureAndFanBounds ==
    page = "ring" =>
        \A k \in RingIndices :
            /\ agents[k].temperature >= 18 * Scale
            /\ agents[k].temperature <= 40 * Scale
            /\ agents[k].fanSpeed >= 0
            /\ agents[k].fanSpeed <= 100 * Scale

\* a step has clamped a working agent's temperature to the ceiling
C1_Witness ==
    /\ page = "ring"
    /\ lastOp = "simulationStep"
    /\ \E k \in RingIndices :
          /\ agents[k].healthStatus # "failed"
          /\ agents[k].temperature = 40 * Scale
          /\ IsInf(agents[k].load)

\* C2: ring hook - in every reachable state every agent's load is within the
\* percentage range [0, 100].
C2_LoadWithinPercentRange ==
    page = "ring" =>
        \A k \in RingIndices : agents[k].load >= 0 /\ agents[k].load <= 100 * Scale

RECURSIVE Total(_, _)
\* s[1] + ... + s[k]
Total(s, k) == IF k = 0 THEN 0 ELSE s[k] + Total(s, k - 1)

\* q is the sum of s divided by n, to the unit of the fixed-point numbers
IsQuotient(q, sum, n) == q * n <= sum /\ sum < (q + 1) * n

\* the temperatures of a population
Temperatures(as) == [k \in 1..Len(as) |-> as[k].temperature]

\* the squared distances of the temperatures from m
SquaredDistances(as, m) ==
    [k \in 1..Len(as) |-> (as[k].temperature - m) * (as[k].temperature - m)]

\* C4: the exposed statistics are those of the exposed agents - the mean
\* temperature and the population variance (divisor = agent count) of the
\* tick-counter hook's snapshot, the mean temperature and the healthy / failed
\* counts of the ring hook - in every reachable state.
C4_StatisticsMatchAgents ==
    /\ page = "tick" =>
          /\ Len(data.agents) = numAgents(scenario)
          /\ IsQuotient(data.avgTemp, Total(Temperatures(data.agents), Len(data.agents)),
                        Len(data.agents))
          /\ IsQuotient(data.variance,
                        Total(SquaredDistances(data.agents, data.avgTemp), Len(data.agents)),
                        Len(data.agents))
    /\ page = "ring" =>
          /\ IsQuotient(stats.averageTemperature, Total(Temperatures(agents), Len(agents)),
                        Len(agents))
          /\ stats.healthyAgents =
                 Cardinality({k \in RingIndices : agents[k].healthStatus = "healthy"})
          /\ stats.failedAgents =
                 Cardinality({k \in RingIndices : agents[k].healthStatus = "failed"})

\* a snapshot taken by handleInjectFault, with faulty agents and a variance
C4_Witness ==
    /\ page = "tick"
    /\ lastOp = "handleInjectFault"
    /\ data.variance > 0
    /\ \E k \in 1..Len(data.agents) : data.agents[k].status = "faulty"

\* a step of the program is a call of handleInjectFault
IsInjectCall == injectCalls' = injectCalls + 1

\* C5: tick-counter hook - a call of handleInjectFault that directly follows
\* another changes neither tick, latch, running flag nor snapshot, and
\* canInjectFault is false in every state from the first call to handleReset.
C5_InjectFaultIdempotent ==
    /\ [][(lastOp = "handleInjectFault" /\ IsInjectCall)
             => UNCHANGED <<step, faultInjected, isPlaying, data>>]_vars
    /\ [](injectCalls > 0 => ~canInjectFault)

\* the second call, made after the tick has wrapped to below the fault tick
C5_Witness ==
    /\ page = "tick"
    /\ lastOp = "handleInjectFault"
    /\ injectCalls = 2
    /\ faultInjected
    /\ step < faultStep(scenario)

\* C6: tick-counter hook - handleInjectFault called where canInjectFault is
\* false leaves tick, latch and snapshot unchanged, and no call moves the tick
\* backwards.
C6_InjectOnlyWhereAllowed ==
    [][IsInjectCall =>
          /\ step' >= step
          /\ ~canInjectFault => UNCHANGED <<step, faultInjected, data>>]_vars

\* C7: after a reset the tick is 0, the simulation is not running, the fault
\* latch is clear and every agent is healthy / OK (ring: the history is empty;
\* line: the timer is cancelled).
C7_ResetRestoresInitialState ==
    /\ (page = "tick" /\ lastOp = "handleReset") =>
          /\ step = 0
          /\ ~isPlaying
          /\ ~faultInjected
          /\ \A k \in 1..Len(data.agents) : data.agents[k].status = "healthy"
    /\ (page = "ring" /\ lastOp = "resetSimulation") =>
          /\ time = 0
          /\ ~isRunning
          /\ temperatureHistory = <<>>
          /\ \A k \in RingIndices : agents[k].healthStatus = "healthy"
    /\ (page = "line" /\ lastOp = "reset") =>
          /\ state.tick = 0
          /\ ~state.running
          /\ loopId = 0
          /\ timers = {}
          /\ \A k \in LineIndices : lineAgents[k].status = "OK"

\* the tick-counter hook right after handleReset
C7_Witness == page = "tick" /\ lastOp = "handleReset" /\ Len(data.agents) > 0

\* the phase label the tick alone gives
PhaseByTick(sc, t) ==
    IF t < faultStep(sc) THEN "Stable Operation"
    ELSE IF t = faultStep(sc) THEN "Fault Detected"
    ELSE IF t < faultStep(sc) + 50 THEN "Self-Healing Response"
    ELSE "System Stabilized"

\* C8: tick-counter hook - in every reachable state the phase label is the one
\* the tick alone gives.
C8_PhaseIsFunctionOfTick ==
    page = "tick" => data.phase = PhaseByTick(scenario, step)

\* a step of the ring hook's simulation
IsRingStep == page = "ring" /\ time' = time + 1

\* a firing of the tick-counter hook's interval
IsTickInterval == page = "tick" /\ lastOp' = "tickInterval"

C10_RepairFailedAgent ==
    [][ /\ (page = "ring" /\ lastOp' = "repairAgent" /\ cmds' = cmds + 1
               /\ agents[lastId' + 1].healthStatus = "failed") =>
              /\ agents' = [agents EXCEPT ![lastId' + 1].healthStatus = "healthy",
                                          ![lastId' + 1].isHealing = FALSE]
              /\ UNCHANGED <<agentCount, isRunning, time, temperatureHistory>>
        /\ (IsRingStep /\ lastOp = "repairAgent") =>
              /\ agents'[lastId + 1].healthStatus # "failed"
              /\ agents'[lastId + 1].fanSpeed > 0 ]_vars

\* the agent just repaired still has the stopped fan of its failure
C10_Witness ==
    /\ page = "ring"
    /\ lastOp = "repairAgent"
    /\ agents[lastId + 1].healthStatus = "healthy"
    /\ agents[lastId + 1].fanSpeed = 0

\* C11: ring hook - repairAgent(id) on an agent that is not failed (healthy,
\* healing or warning) changes nothing: the agents are the same after the call.
C11_RepairNotFailedIsNoOp ==
    [][(page = "ring" /\ lastOp' = "repairAgent" /\ cmds' = cmds + 1
           /\ agents[lastId' + 1].healthStatus # "failed")
          => UNCHANGED <<agents, agentCount, isRunning, time, temperatureHistory, stats>>]_vars

\* the neighbour set of the ring agent at index k
NeighborSet(k) == {agents[k].neighbors[j] : j \in 1..Len(agents[k].neighbors)}

\* C12: ring hook - the neighbour set of every agent i is
\* {(i-1+N) mod N, (i+1) mod N}, neighbourhood is symmetric, and this holds in
\* every reachable state: no step, triggerFailure or repairAgent changes a list.
C12_RingTopology ==
    page = "ring" =>
        /\ Len(agents) = agentCount
        /\ \A k \in RingIndices :
              /\ agents[k].id = k - 1
              /\ NeighborSet(k) = { (k - 1 - 1 + agentCount) % agentCount, k % agentCount }
              /\ \A j \in RingIndices :
                    (j - 1) \in NeighborSet(k) <=> (k - 1) \in NeighborSet(j)

\* a ring of three or more after a failure, a step and a repair
C12_Witness ==
    /\ page = "ring"
    /\ agentCount >= 3
    /\ lastOp = "repairAgent"
    /\ time > 0
    /\ agents[1].neighbors = <<agentCount - 1, 1>>

\* C13: in the ring hook and in the line script, no agent's neighbours list
\* contains the agent's own id.
C13_NoSelfNeighbour ==
    /\ page = "ring" => \A k \in RingIndices : agents[k].id \notin NeighborSet(k)
    /\ page = "line" =>
           \A k \in LineIndices : \A j \in 1..Len(lineAgents[k].neighbors) :
               lineAgents[k].neighbors[j] # lineAgents[k].id

\* C14: useSimulation(agentCount) with agentCount < 1 yields no engine state:
\* no state of the ring hook has such a count, an empty population or
\* statistics computed over zero agents.
C14_InvalidCountYieldsNoState ==
    page = "ring" =>
        /\ agentCount >= 1
        /\ agents # <<>>
        /\ stats.averageTemperature # NaN

\* C15: tick-counter hook - a timer tick moves the tick to tick + 1 below
\* maxSteps and to 0 at maxSteps and leaves the running flag and the fault latch
\* alone; the tick stays within 0..maxSteps; and a hook that is never paused or
\* reset again cycles for ever: its tick is 0 again and again.
C15_TickAdvancesAndWraps ==
    /\ [][IsTickInterval =>
              /\ step' = (IF step < maxSteps(scenario) THEN step + 1 ELSE 0)
              /\ UNCHANGED <<isPlaying, faultInjected, scenario>>]_vars
    /\ [](page = "tick" => (step >= 0 /\ step <= maxSteps(scenario)))
    /\ []<>(page = "tick" => (~isPlaying \/ step = 0))

\* a timer tick has wrapped the tick to 0, still playing and with the latch set
C15_Witness ==
    /\ page = "tick"
    /\ lastOp = "tickInterval"
    /\ step = 0
    /\ isPlaying
    /\ faultInjected

\* the operations that start, stop or toggle a simulation
RunFlagOps == {"toggleSimulation", "handlePlayPause", "start", "stop"}

\* the operations that may change tick or agents while a simulation is stopped
StoppedOps == {"resetSimulation", "triggerFailure", "repairAgent",
               "handleReset", "handleInjectFault", "reset"}

\* the running flag of the program that is loaded
Running == IF page = "ring" THEN isRunning
           ELSE IF page = "tick" THEN isPlaying ELSE state.running

\* C16: in the three variants, start / stop / play-pause leave tick, agents and
\* fault latch unchanged, and while the running flag is false tick and agents
\* change only by a reset or an explicit fault / repair command.
C16_RunFlagOnly ==
    [][ /\ (lastOp' \in RunFlagOps) =>
              /\ UNCHANGED <<agents, time, temperatureHistory, stats>>
              /\ UNCHANGED <<step, faultInjected, data>>
              /\ UNCHANGED <<lineAgents>>
              /\ state'.tick = state.tick
              /\ state'.history = state.history
              /\ state'.data = state.data
        /\ (~Running /\ (<<agents, time, step, data, lineAgents>>' # <<agents, time, step, data, lineAgents>>
                            \/ state'.tick # state.tick)) =>
              lastOp' \in StoppedOps ]_vars

\* the line script stopped after it has stepped
C16_Witness ==
    /\ page = "line"
    /\ lastOp = "stop"
    /\ state.tick > 0
    /\ ~state.running
    /\ timers = {}

\* s in the opposite order
Reverse(s) == [k \in 1..Len(s) |-> s[Len(s) + 1 - k]]

\* the agents of the line script after the local update of the step being taken
MovedAgents ==
    [k \in LineIndices |->
        physics(lineAgents[k], bias, k, state.tick + 1, state'.data.renMix)]

\* a step of the line script is being taken
IsLineStep == page = "line" /\ lastOp' = "step" /\ state'.tick = state.tick + 1

\* C17: the state after a step does not depend on the order in which the agents
\* are processed: in the ring hook every agent is updated from the previous
\* array, and in the line script the redistribution among the hot agents gives
\* the same agents when the hot agents are visited in the opposite order.
C17_StepOrderIndependent ==
    [][ /\ IsRingStep =>
              \A k \in RingIndices : agents'[k] = updateAgent(agents[k], agents)
        /\ IsLineStep =>
              balanceHot(MovedAgents, hotIndices(MovedAgents))
                  = balanceHot(MovedAgents, Reverse(hotIndices(MovedAgents))) ]_vars

\* the agent at index k of ags is hot
IsHot(ags, k) == ags[k].temp > 33 * Milli

\* the indices of the neighbours of the agent at index k of the line
NeighborIndices(ags, k) ==
    {agentIndex(ags, ags[k].neighbors[j]) : j \in 1..Len(ags[k].neighbors)}

\* C18: line script - in a step, a hot agent none of whose neighbours is hot has
\* its power lowered by one increment of 0.12 (clamped to [1.0, 6.0]), whether
\* it has one neighbour or two, and a neighbour of exactly one hot agent that
\* is not hot itself is raised by one increment of 0.15 (clamped to [1.5, 6.0]).
C18_RedistributionOncePerHotAgent ==
    [][IsLineStep =>
          LET moved == MovedAgents
              balanced == balanceHot(moved, hotIndices(moved))
          IN  \A k \in LineIndices :
                  /\ (IsHot(moved, k) /\ \A n \in NeighborIndices(moved, k) : ~IsHot(moved, n)) =>
                         /\ balanced[k].power = clamp(moved[k].power - 120, 1000, 6000)
                         /\ lastId' = -1 => lineAgents'[k].power = balanced[k].power
                  /\ (~IsHot(moved, k)
                         /\ Cardinality({n \in NeighborIndices(moved, k) : IsHot(moved, n)}) = 1) =>
                         balanced[k].power = clamp(moved[k].power + 150, 1500, 6000) ]_vars

\* the ids of the agents a fault is designated to hit
Designated == IF scenario = "prototype" THEN {5} ELSE {17, 18, 19}

\* the agents of the snapshot that are faulty, as ids
FaultyIds == {data.agents[k].id : k \in {j \in 1..Len(data.agents) : data.agents[j].status = "faulty"}}

\* C19: tick-counter hook - an agent of the snapshot is faulty iff it is a
\* designated agent (the last one in prototype, the last three in vision), the
\* fault is active (tick >= faultStep or the latch is set) and
\* tick < faultStep + 100; so the faulty agents are none or all the designated.
C19_FaultyExactlyDesignated ==
    page = "tick" =>
        LET active == (step >= faultStep(scenario) \/ faultInjected)
                          /\ step < faultStep(scenario) + 100
        IN  /\ FaultyIds = (IF active THEN Designated ELSE {})
            /\ Cardinality(FaultyIds) \in {0, IF scenario = "prototype" THEN 1 ELSE 3}

\* after a manual injection the tick has wrapped: the three agents of vision
\* are faulty below faultStep
C19_Witness ==
    /\ page = "tick"
    /\ scenario = "vision"
    /\ lastOp = "tickInterval"
    /\ faultInjected
    /\ step < faultStep(scenario)
    /\ FaultyIds = {17, 18, 19}

\* C20: tick-counter hook - an agent that has become faulty, by the scheduled
\* fault or by a manual injection, is healthy again within 100 timer ticks: no
\* snapshot shows a fault that has lasted 100 ticks or more.
C20_FaultyRecoversWithinWindow ==
    page = "tick" => (HasFaulty(data) => faultyTicks < 100)

\* the status of the agent with id i in the snapshot
StatusOf(i) == data.agents[i + 1].status

\* C21: tick-counter hook - while some agent is faulty, an agent that is not
\* faulty is compensating exactly when its index is within the radius (2 in
\* prototype, 5 in vision) of the index of some faulty agent and
\* tick < faultStep + 50; every other agent that is not faulty is healthy.
C21_CompensatingWithinRadius ==
    (page = "tick" /\ FaultyIds # {}) =>
        \A i \in 0..(numAgents(scenario) - 1) :
            i \notin FaultyIds =>
                LET radius == IF scenario = "prototype" THEN 2 ELSE 5
                    near == \E f \in FaultyIds : Abs(i - f) <= radius
                IN  IF near /\ step < faultStep(scenario) + 50
                    THEN StatusOf(i) = "compensating"
                    ELSE StatusOf(i) = "healthy"

\* the ring agent at index k has a failed neighbour
HasFailedNeighbor(k) == \E j \in NeighborSet(k) : agents[j + 1].healthStatus = "failed"

\* C22: ring hook - a step turns a healthy agent with a failed neighbour into
\* a healing one with isHealing and communicating set, and a healing agent
\* without a failed neighbour into a healthy one with both flags cleared; in
\* both cases the status is warning instead when the new temperature exceeds 35.
C22_HealingStartsAndEnds ==
    [][IsRingStep =>
          \A k \in RingIndices :
              /\ (agents[k].healthStatus = "healthy" /\ HasFailedNeighbor(k)) =>
                     /\ agents'[k].isHealing
                     /\ agents'[k].communicating
                     /\ agents'[k].healthStatus =
                            (IF agents'[k].temperature > 35 * Scale THEN "warning" ELSE "healing")
              /\ (agents[k].healthStatus = "healing" /\ ~HasFailedNeighbor(k)) =>
                     /\ ~agents'[k].isHealing
                     /\ ~agents'[k].communicating
                     /\ agents'[k].healthStatus =
                            (IF agents'[k].temperature > 35 * Scale THEN "warning" ELSE "healthy")
      ]_vars

\* after a failure and its repair a step has returned an agent to healthy: it
\* still carries the load it absorbed while healing
C22_Witness ==
    /\ page = "ring"
    /\ lastOp = "simulationStep"
    /\ cmds = 2
    /\ \A k \in RingIndices : agents[k].healthStatus # "failed"
    /\ \E k \in RingIndices :
          /\ agents[k].healthStatus = "healthy"
          /\ ~agents[k].isHealing
          /\ ~agents[k].communicating
          /\ agents[k].load > 75 * Scale

\* no agent of the ring is failed
NoneFailed == \A k \in RingIndices : agents[k].healthStatus # "failed"

\* the fan at full speed removes at least the heat the load of agent a produces:
\* (load / 100) * HEATING_RATE <= (100 / 100) * COOLING_RATE
CanCool(a) == ~IsInf(a.load) /\ a.load * HEATING_RATE <= 100 * Scale * COOLING_RATE

\* While no agent is failed, a step keeps the load of an agent that cannot cool
\* and does not lower its temperature, and a warning stays a warning: such an
\* agent never returns from the ceiling.
OverloadPersists ==
    [][(IsRingStep /\ NoneFailed) =>
          \A k \in RingIndices :
              ~CanCool(agents[k]) =>
                  /\ agents'[k].load = agents[k].load
                  /\ agents'[k].temperature >= agents[k].temperature
                  /\ agents[k].healthStatus = "warning" => agents'[k].healthStatus = "warning"
      ]_vars

\* C23: ring hook - once every failed agent is repaired, every agent becomes
\* healthy again under continued ticking and its temperature falls back from
\* the ceiling: the load it absorbed is temporary.  A run refutes this when it
\* reaches a state without a failed agent in which some agent carries a load
\* that cannot be cooled, because steps then keep that load (OverloadPersists).
C23_RepairedSwarmRecovers ==
    (page = "ring" /\ NoneFailed) => \A k \in RingIndices : CanCool(agents[k])

\* h2 is h1 with the entry e appended, cut to the most recent n entries
IsPushed(h1, h2, e, n) ==
    /\ Len(h2) = Min(Len(h1) + 1, n)
    /\ h2[Len(h2)] = e
    /\ \A i \in 1..(Len(h2) - 1) : h2[i] = h1[i + (Len(h1) + 1 - Len(h2))]

\* C24: a step adds exactly 1 to the tick / time and appends exactly one
\* history entry; temperatureHistory never holds more than 50 entries and a
\* script's state.history never more than 120; the entries kept are the most
\* recent steps in order (in the ring hook: the steps time - length .. time - 1).
C24_HistoryOfRecentSteps ==
    /\ [][ /\ (page = "ring" /\ lastOp' = "simulationStep") =>
                  /\ time' = time + 1
                  /\ Len(temperatureHistory') >= 1
                  /\ temperatureHistory'[Len(temperatureHistory')].time = time
                  /\ IsPushed(temperatureHistory, temperatureHistory',
                              temperatureHistory'[Len(temperatureHistory')], 50)
           /\ (page = "line" /\ lastOp' = "step") =>
                  /\ state'.tick = state.tick + 1
                  /\ IsPushed(state.history, state'.history, state'.data, 120) ]_vars
    /\ [](/\ Len(temperatureHistory) <= 50
          /\ Len(state.history) <= 120
          /\ \A i \in 1..Len(temperatureHistory) :
                 temperatureHistory[i].time = time - Len(temperatureHistory) + i - 1)

\* a script has stepped past the capacity of its history
C24_Witness ==
    /\ page = "line"
    /\ lastOp = "step"
    /\ state.tick > 120
    /\ Len(state.history) = 120

\* the ring hook has stepped past the capacity of its history
RingHistoryFull ==
    /\ page = "ring"
    /\ time > 50
    /\ Len(temperatureHistory) = 50
    /\ temperatureHistory[1].time = time - 50

\* the statuses of the agents of the snapshot
SnapshotStatuses == {data.agents[k].status : k \in 1..Len(data.agents)}

\* C25: tick-counter hook - in every snapshot in which some agent is
\* compensating, some agent is faulty.
C25_CompensatingImpliesFaulty ==
    (page = "tick" /\ "compensating" \in SnapshotStatuses) => "faulty" \in SnapshotStatuses

\* a timer tick has produced a snapshot with compensating agents
C25_Witness ==
    /\ page = "tick"
    /\ lastOp = "tickInterval"
    /\ "compensating" \in SnapshotStatuses
    /\ "faulty" \in SnapshotStatuses

\* C26: tick-counter hook - in every state whose phase is Stable Operation no
\* agent is faulty or compensating.
C26_StablePhaseHasNoFault ==
    (page = "tick" /\ data.phase = "Stable Operation") =>
        ("faulty" \notin SnapshotStatuses /\ "compensating" \notin SnapshotStatuses)

\* C27: ring hook - in every reachable state an agent whose healthStatus is
\* healing has isHealing = TRUE and one whose healthStatus is healthy has
\* isHealing = FALSE.
C27_HealingFlagMatchesStatus ==
    page = "ring" =>
        \A k \in RingIndices :
            /\ agents[k].healthStatus = "healing" => agents[k].isHealing
            /\ agents[k].healthStatus = "healthy" => ~agents[k].isHealing

\* after a failure and a repair, a step has ended the healing of an agent:
\* it is healthy again with the flag cleared
C27_Witness ==
    /\ page = "ring"
    /\ lastOp = "simulationStep"
    /\ cmds = 2
    /\ \A k \in RingIndices : agents[k].healthStatus # "failed"
    /\ \E k \in RingIndices : agents[k].healthStatus = "healthy" /\ ~agents[k].isHealing
                                /\ agents[k].load > 75 * Scale

\* C28: ring hook - triggerFailure(id) is never lost: the agent is failed with
\* fanSpeed 0 in the state the next step reads, every step keeps a failed
\* agent failed with fanSpeed 0, and a failed agent stops being failed only by
\* repairAgent of its id or by resetSimulation.
C28_FailureIsKept ==
    [][ page = "ring" =>
          /\ lastOp' = "triggerFailure" =>
                \A k \in RingIndices :
                    IF agents[k].id = lastId'
                    THEN agents'[k].healthStatus = "failed" /\ agents'[k].fanSpeed = 0
                    ELSE agents'[k] = agents[k]
          /\ IsRingStep =>
                \A k \in RingIndices :
                    agents[k].healthStatus = "failed" =>
                        agents'[k].healthStatus = "failed" /\ agents'[k].fanSpeed = 0
          /\ \A k \in RingIndices :
                (agents[k].healthStatus = "failed" /\ agents'[k].healthStatus # "failed") =>
                    \/ lastOp' = "resetSimulation"
                    \/ lastOp' = "repairAgent" /\ lastId' = agents[k].id ]_vars

\* steps have read a triggered failure: with the timer running the agent is
\* still failed, its fan stands and it has heated up
C28_Witness ==
    /\ page = "ring"
    /\ lastOp = "simulationStep"
    /\ isRunning
    /\ cmds = 1
    /\ time >= 2
    /\ \E k \in RingIndices :
          /\ agents[k].healthStatus = "failed"
          /\ agents[k].fanSpeed = 0
          /\ agents[k].temperature > 28 * Scale

\* C29: line script - an agent whose status is FAIL keeps status FAIL across
\* every step until reset().
C29_FailStaysFail ==
    [][ IsLineStep =>
          \A k \in LineIndices :
              lineAgents[k].status = "FAIL" => lineAgents'[k].status = "FAIL" ]_vars

\* C30: scripts - at most one step timer is active, state.running is true
\* exactly when loopId holds a handle, that handle is the active timer, and a
\* start while running creates no timer.
C30_OneTimer ==
    [][ page = "line" =>
          /\ Cardinality(timers') <= 1
          /\ state'.running <=> loopId' # 0
          /\ timers' = (IF loopId' # 0 THEN {loopId'} ELSE {})
          /\ (lastOp' = "start" /\ loopId # 0) => UNCHANGED <<timers, loopId, state>> ]_vars

\* start has been called after steps were taken: one timer runs and loopId
\* holds its handle
C30_Witness ==
    /\ page = "line"
    /\ lastOp = "start"
    /\ state.running
    /\ loopId # 0
    /\ timers = {loopId}
    /\ state.tick > 0

====
